---- MODULE Spec2Model ----
(***************************************************************************)
(* Model of the Todoist -> Capacities webhook relay.                       *)
(*                                                                         *)
(*   src/lib/types.ts      signature verification, header lookup, parsing  *)
(*   src/unnamed/part_000  formatTaskAsMarkdown, formatDateTime,           *)
(*                         saveToDailyNote                                 *)
(*   src/api/webhook.ts    the two handler entry points (Node runtime and  *)
(*                         Edge runtime)                                   *)
(*                                                                         *)
(* Strings are sequences.  A signature is a sequence of character codes,   *)
(* a digest a sequence of bytes, a request body a sequence of JSON tokens, *)
(* a formatted note a sequence of text pieces in which "\n" is the line    *)
(* break.                                                                  *)
(***************************************************************************)
EXTENDS Integers, Sequences, FiniteSets, TLC

VARIABLES
    vpc, vIn, vOut,     \* the signature functions on their own
    fpc, fIn, fOut,     \* the formatters on their own
    hpc,                \* the handler's position
    runtime,            \* the entry point that runs: "node" or "edge"
    req,                \* the request
    rawBody,            \* the handler's rawBody
    payload,            \* the handler's payload
    markdown,           \* the handler's markdown
    steps,              \* the steps the handler has run
    responses,          \* the responses sent
    calls,              \* the requests made to the note service
    nodeRun             \* how the Node handler ended on the request, kept
                        \* while the Edge handler runs on the same request

vars == <<vpc, vIn, vOut, fpc, fIn, fOut, hpc, runtime, req, rawBody, payload,
          markdown, steps, responses, calls, nodeRun>>

handlerVars == <<hpc, runtime, req, rawBody, payload, markdown, steps, responses, calls,
                 nodeRun>>

verifyVars == <<vpc, vIn, vOut>>
formatVars == <<fpc, fIn, fOut>>

(***************************************************************************)
(* Bounds of the model.                                                    *)
(***************************************************************************)
\* longest request body, in bytes, given to the signature functions
MaxBodyLen == 2
\* most labels on a task
MaxLabels == 2

(***************************************************************************)
(* Bits and bytes.                                                         *)
(***************************************************************************)
Pow2(k) == 2 ^ k

BitOf(n, k) == (n \div Pow2(k)) % 2

\* n with bit k inverted
FlipBit(n, k) == IF BitOf(n, k) = 1 THEN n - Pow2(k) ELSE n + Pow2(k)

\* s with bit k of its element at position i inverted
FlipAt(s, i, k) == [s EXCEPT ![i] = FlipBit(s[i], k)]

RECURSIVE BytesToBits(_)
\* most significant bit first
BytesToBits(bytes) ==
    IF bytes = <<>> THEN <<>>
    ELSE [k \in 1..8 |-> BitOf(Head(bytes), 8 - k)] \o BytesToBits(Tail(bytes))

RECURSIVE BitsToNat(_)
BitsToNat(bits) ==
    IF bits = <<>> THEN 0
    ELSE 2 * BitsToNat(SubSeq(bits, 1, Len(bits) - 1)) + bits[Len(bits)]

RECURSIVE SextetsToBits(_)
SextetsToBits(vals) ==
    IF vals = <<>> THEN <<>>
    ELSE [k \in 1..6 |-> BitOf(Head(vals), 6 - k)] \o SextetsToBits(Tail(vals))

(***************************************************************************)
(* Base64.                                                                 *)
(***************************************************************************)
\* the character of a 6-bit value in the standard alphabet
Base64Char(v) ==
    IF v < 26 THEN 65 + v
    ELSE IF v < 52 THEN 97 + (v - 26)
    ELSE IF v < 62 THEN 48 + (v - 52)
    ELSE IF v = 62 THEN 43
    ELSE 47

\* the 6-bit value of a character, -1 for a character outside the alphabet;
\* the decoder of Buffer.from(s, 'base64') also takes the URL-safe '-' and '_'
Unbase64(c) ==
    IF c >= 65 /\ c <= 90 THEN c - 65
    ELSE IF c >= 97 /\ c <= 122 THEN c - 97 + 26
    ELSE IF c >= 48 /\ c <= 57 THEN c - 48 + 52
    ELSE IF c = 43 \/ c = 45 THEN 62
    ELSE IF c = 47 \/ c = 95 THEN 63
    ELSE -1

\* digest('base64') and btoa: groups of six bits, zero-filled, '=' (61) to
\* a multiple of four characters
Base64Encode(bytes) ==
    LET bits   == BytesToBits(bytes)
        nch    == (Len(bits) + 5) \div 6
        padded == bits \o [k \in 1..(6 * nch - Len(bits)) |-> 0]
        chars  == [i \in 1..nch |->
                      Base64Char(BitsToNat(SubSeq(padded, 6 * i - 5, 6 * i)))]
        npad   == (4 - (nch % 4)) % 4
    IN  chars \o [k \in 1..npad |-> 61]

RECURSIVE LegalSextets(_)
\* the values of the characters the decoder consumes: a character outside
\* the alphabet is skipped, '=' ends the decoding
LegalSextets(chars) ==
    IF chars = <<>> THEN <<>>
    ELSE IF Head(chars) = 61 THEN <<>>
    ELSE IF Unbase64(Head(chars)) < 0 THEN LegalSextets(Tail(chars))
    ELSE <<Unbase64(Head(chars))>> \o LegalSextets(Tail(chars))

\* Buffer.from(s, 'base64'): never throws; whole bytes only
Base64Decode(chars) ==
    LET bits   == SextetsToBits(LegalSextets(chars))
        nbytes == Len(bits) \div 8
    IN  [i \in 1..nbytes |-> BitsToNat(SubSeq(bits, 8 * i - 7, 8 * i))]

(***************************************************************************)
(* HMAC.  The digest is cut to two bytes (the real one has 32: both leave  *)
(* two bytes in the last base64 group, so both encodings end in one '=').  *)
(* The keyed hash is an odd-multiplier polynomial, under which a change of *)
(* one bit of the message always changes the digest.                       *)
(***************************************************************************)
RECURSIVE HmacFold(_, _)
HmacFold(h, bytes) ==
    IF bytes = <<>> THEN h
    ELSE HmacFold((h * 257 + Head(bytes) + 1) % 65536, Tail(bytes))

\* createHmac('sha256', key).update(msg).digest()
HmacSha256(key, msg) ==
    LET h == HmacFold(HmacFold(40503, key), msg)
    IN  <<h \div 256, h % 256>>

\* what the sender puts in the header: the base64 text of the digest
Sign(msg, key) == Base64Encode(HmacSha256(key, msg))

(***************************************************************************)
(* verifyTodoistSignature (Node runtime) and verifySignature (Edge         *)
(* runtime).  A string that is absent (undefined, null) and the empty      *)
(* string are both the empty sequence: the code tells them apart nowhere,  *)
(* it tests them with '!'.                                                 *)
(***************************************************************************)
Falsy(s) == Len(s) = 0

\* crypto.timingSafeEqual on two buffers of the same length
timingSafeEqual(a, b) == a = b

\* the comparison of the lengths alone, the bytes never compared
verifyLengthsOnly(body, signature, clientSecret) ==
    IF Falsy(signature) THEN FALSE
    ELSE Len(Base64Decode(signature))
            = Len(Base64Decode(Base64Encode(HmacSha256(clientSecret, body))))

verifyTodoistSignature(body, signature, clientSecret) ==
    IF Falsy(signature) THEN FALSE
    ELSE LET expectedSignature == Base64Encode(HmacSha256(clientSecret, body))
             sigBuffer         == Base64Decode(signature)
             expectedBuffer    == Base64Decode(expectedSignature)
         IN  IF Len(sigBuffer) # Len(expectedBuffer) THEN FALSE
             ELSE timingSafeEqual(sigBuffer, expectedBuffer)

verifySignature(body, signature, secret) ==
    IF Falsy(signature) THEN FALSE
    ELSE LET expected == Base64Encode(HmacSha256(secret, body))
         IN  expected = signature

(***************************************************************************)
(* Text.  A text is a sequence of pieces, "\n" the line break; a line is a *)
(* text without line break; an empty string contributes no piece.          *)
(***************************************************************************)
Piece(s) == IF s = "" THEN <<>> ELSE <<s>>

RECURSIVE Join(_)
\* lines.join('\n')
Join(lines) ==
    IF lines = <<>> THEN <<>>
    ELSE IF Len(lines) = 1 THEN lines[1]
    ELSE lines[1] \o <<"\n">> \o Join(Tail(lines))

RECURSIVE JoinComma(_)
\* labels.join(', ')
JoinComma(strs) ==
    IF strs = <<>> THEN <<>>
    ELSE IF Len(strs) = 1 THEN Piece(strs[1])
    ELSE Piece(strs[1]) \o <<", ">> \o JoinComma(Tail(strs))

RECURSIVE QuoteLines(_)
\* description.split('\n').join('\n> ')
QuoteLines(text) ==
    IF text = <<>> THEN <<>>
    ELSE IF Head(text) = "\n" THEN <<"\n", "> ">> \o QuoteLines(Tail(text))
    ELSE <<Head(text)>> \o QuoteLines(Tail(text))

\* description.trim() is the empty string
TrimsToEmpty(text) == \A i \in 1..Len(text) : text[i] \in {" ", "\n", "\t"}

EndsWith(text, tail) ==
    /\ Len(text) >= Len(tail)
    /\ SubSeq(text, Len(text) - Len(tail) + 1, Len(text)) = tail

Contains(text, piece) == \E i \in 1..Len(text) : text[i] = piece

(***************************************************************************)
(* Dates.  new Date(s) of a string that is no timestamp is an Invalid Date *)
(* (its time value is NaN); it does not throw.  toLocaleString of an       *)
(* Invalid Date is the string "Invalid Date"; it does not throw either.    *)
(***************************************************************************)
\* the timestamps of the model and their rendering
KnownTimes ==
    {[iso |-> "2024-01-15T14:00:00Z", long |-> "Mon, Jan 15, 2024, 2:00 PM",
      short |-> "1/15/2024, 2:00:00 PM"]}

\* new Date(isoString)
NewDate(isoString) ==
    IF \E t \in KnownTimes : t.iso = isoString
    THEN [valid |-> TRUE, time |-> CHOOSE t \in KnownTimes : t.iso = isoString]
    ELSE [valid |-> FALSE, time |-> [iso |-> "", long |-> "", short |-> ""]]

\* date.toLocaleString('en-US', {weekday, month, day, year, hour, minute})
toLocaleStringLong(date) ==
    IF date.valid THEN date.time.long ELSE "Invalid Date"

\* date.toLocaleString()
toLocaleStringDefault(date) ==
    IF date.valid THEN date.time.short ELSE "Invalid Date"

\* whether the try block of formatDateTime throws: the locale and the
\* options are fixed and well-formed, so it never does
DateFormattingThrows(date) == FALSE

formatDateTime(isoString) ==
    LET date == NewDate(isoString)
    IN  IF DateFormattingThrows(date) THEN isoString
        ELSE toLocaleStringLong(date)

(***************************************************************************)
(* formatTaskAsMarkdown (src/unnamed/part_000), used by the Node handler.  *)
(* A task is a record; a field the payload leaves out is "" (a string),    *)
(* <<>> (labels, description) or has present = FALSE (due).                *)
(***************************************************************************)
\* getPriorityLabel of lib/todoist
getPriorityLabel(priority) ==
    CASE priority = 4 -> "Urgent"
      [] priority = 3 -> "High"
      [] priority = 2 -> "Medium"
      [] priority = 1 -> "Normal"

\* the early return without its blank line: lines.join('\n') + '\n---\n'
EarlyReturnNoBlankLine(lines) == Join(lines) \o <<"\n", "---", "\n">>

\* return lines.join('\n') + '\n\n---\n'
EarlyReturn(lines) == Join(lines) \o <<"\n", "\n", "---", "\n">>

\* the three lines every case of the switch pushes
HeadLines(heading, mark, task) ==
    <<heading, <<>>, <<mark>> \o Piece(task.content) \o <<mark>>>>

\* lines pushed after the switch
MetadataLines(task) ==
    <<<<>>>>
    \o (IF task.priority > 1
        THEN <<<<"- **Priority:** ", getPriorityLabel(task.priority)>>>>
        ELSE <<>>)
    \o (IF task.due.present
        THEN LET dueStr == IF task.due.datetime # ""
                           THEN formatDateTime(task.due.datetime)
                           ELSE task.due.date
                 recurringNote == IF task.due.is_recurring THEN " (recurring)" ELSE ""
             IN  <<<<"- **Due:** ">> \o Piece(dueStr) \o Piece(recurringNote)>>
        ELSE <<>>)
    \o (IF Len(task.labels) > 0
        THEN <<<<"- **Labels:** ">> \o JoinComma(task.labels)>>
        ELSE <<>>)
    \o (IF task.description # <<>> /\ ~TrimsToEmpty(task.description)
        THEN <<<<>>, <<"> ">> \o QuoteLines(task.description)>>
        ELSE <<>>)
    \o <<<<>>, <<"---">>, <<>>>>

formatTaskAsMarkdown(task, eventName) ==
    CASE eventName = "item:added" ->
           Join(HeadLines(<<"### New Task Added">>, "**", task) \o MetadataLines(task))
      [] eventName = "item:completed" ->
           EarlyReturn(
               HeadLines(<<"### Task Completed">>, "~~", task)
               \o (IF task.completed_at # ""
                   THEN <<<<>>, <<"- **Completed:** ", formatDateTime(task.completed_at)>>>>
                   ELSE <<>>))
      [] eventName = "item:updated" ->
           Join(HeadLines(<<"### Task Updated">>, "**", task) \o MetadataLines(task))
      [] eventName = "item:uncompleted" ->
           Join(HeadLines(<<"### Task Reopened">>, "**", task) \o MetadataLines(task))
      [] eventName = "item:deleted" ->
           EarlyReturn(HeadLines(<<"### Task Deleted">>, "~~", task))
      [] OTHER ->
           Join(HeadLines(<<"### Task Event: ", eventName>>, "**", task)
                \o MetadataLines(task))

(***************************************************************************)
(* formatTaskMarkdown (src/api/webhook.ts), used by the Edge handler.      *)
(***************************************************************************)
\* labels[priority] || 'Normal'
getPriorityLabelEdge(priority) ==
    IF priority \in 1..4 THEN getPriorityLabel(priority) ELSE "Normal"

\* lines.push('', '---', '')
SeparatorLines == <<<<>>, <<"---">>, <<>>>>

EdgeMetadataLines(task) ==
    (IF task.priority > 1
     THEN <<<<"- **Priority:** ", getPriorityLabelEdge(task.priority)>>>>
     ELSE <<>>)
    \o (IF task.due.present
        THEN LET dueStr == IF task.due.datetime # "" THEN task.due.datetime
                           ELSE task.due.date
             IN  <<<<"- **Due:** ">> \o Piece(dueStr)
                   \o Piece(IF task.due.is_recurring THEN " (recurring)" ELSE "")>>
        ELSE <<>>)
    \o (IF Len(task.labels) > 0
        THEN <<<<"- **Labels:** ">> \o JoinComma(task.labels)>>
        ELSE <<>>)
    \o (IF task.description # <<>> /\ ~TrimsToEmpty(task.description)
        THEN <<<<>>, <<"> ">> \o QuoteLines(task.description)>>
        ELSE <<>>)

formatTaskMarkdown(task, eventName) ==
    LET head ==
            IF eventName = "item:completed"
            THEN HeadLines(<<"### Task Completed">>, "~~", task)
                 \o (IF task.completed_at # ""
                     THEN <<<<>>, <<"- **Completed:** ",
                                   toLocaleStringDefault(NewDate(task.completed_at))>>>>
                     ELSE <<>>)
            ELSE IF eventName = "item:added"
            THEN HeadLines(<<"### New Task Added">>, "**", task)
            ELSE IF eventName = "item:updated"
            THEN HeadLines(<<"### Task Updated">>, "**", task)
            ELSE HeadLines(<<"### Task Event: ", eventName>>, "**", task)
        meta == IF eventName # "item:completed" THEN EdgeMetadataLines(task) ELSE <<>>
    IN  Join(head \o meta \o SeparatorLines)

(***************************************************************************)
(* JSON.  A request body is a sequence of tokens; a string literal is one  *)
(* token, written without its quotes, and so is the text of a task object. *)
(* " " is whitespace between tokens.                                       *)
(***************************************************************************)
TaskMilk ==
    [content |-> "Buy milk", description |-> <<>>, priority |-> 4,
     due |-> [present |-> FALSE, date |-> "", datetime |-> "", is_recurring |-> FALSE],
     labels |-> <<"errand">>, completed_at |-> ""]

TaskReport ==
    [content |-> "File report", description |-> <<"draft", "\n", "then send">>,
     priority |-> 2,
     due |-> [present |-> TRUE, date |-> "2024-01-15", datetime |-> "tomorrow at 2pm",
              is_recurring |-> TRUE],
     labels |-> <<>>, completed_at |-> "2024-01-15T14:00:00Z"]

\* the task objects a body can carry, by their token
KnownTasks == {[tok |-> "{milk}", task |-> TaskMilk], [tok |-> "{report}", task |-> TaskReport]}

TaskTokens == {t.tok : t \in KnownTasks}

TaskOfToken(tok) == (CHOOSE t \in KnownTasks : t.tok = tok).task

TokenOfTask(task) == (CHOOSE t \in KnownTasks : t.task = task).tok

KindTokens ==
    {"item:added", "item:updated", "item:completed", "item:uncompleted",
     "item:deleted", "item:archived"}

Undefined == "undefined"

\* the result of JSON.parse: ok = FALSE is a SyntaxError
JsonValue(ok, type, name, hasData, data) ==
    [ok |-> ok, type |-> type, event_name |-> name, has_data |-> hasData,
     event_data |-> data]

StripSpace(text) ==
    LET NotSpace(t) == t # " "
    IN  SelectSeq(text, NotSpace)

JSONParse(text) ==
    LET t == StripSpace(text)
    IN  IF t = <<"null">> THEN JsonValue(TRUE, "null", Undefined, FALSE, TaskMilk)
        ELSE IF t = <<"42">> THEN JsonValue(TRUE, "number", Undefined, FALSE, TaskMilk)
        ELSE IF /\ Len(t) = 5
                /\ <<t[1], t[2], t[3], t[5]>> = <<"{", "event_name", ":", "}">>
                /\ t[4] \in KindTokens
        THEN JsonValue(TRUE, "object", t[4], FALSE, TaskMilk)
        ELSE IF /\ Len(t) = 9
                /\ <<t[1], t[2], t[3], t[5], t[6], t[7], t[9]>>
                       = <<"{", "event_name", ":", ",", "event_data", ":", "}">>
                /\ t[4] \in KindTokens
                /\ t[8] \in TaskTokens
        THEN JsonValue(TRUE, "object", t[4], TRUE, TaskOfToken(t[8]))
        ELSE JsonValue(FALSE, "error", Undefined, FALSE, TaskMilk)

\* JSON.stringify of a parsed object: its keys in order, no whitespace
JSONStringify(value) ==
    IF value.has_data
    THEN <<"{", "event_name", ":", value.event_name, ",", "event_data", ":",
           TokenOfTask(value.event_data), "}">>
    ELSE <<"{", "event_name", ":", value.event_name, "}">>

\* parseWebhookPayload of lib/todoist: JSON.parse and a type cast
parseWebhookPayload(body) == JSONParse(body)

\* the bytes of a text (its UTF-8 encoding): one code for each token
TokenList ==
    <<"{", "}", ":", ",", " ", "null", "42", "event_name", "event_data",
      "item:added", "item:updated", "item:completed", "item:uncompleted",
      "item:deleted", "item:archived", "{milk}", "{report}">>

TokCode(tok) == CHOOSE i \in 1..Len(TokenList) : TokenList[i] = tok

Utf8(text) == [i \in 1..Len(text) |-> TokCode(text[i])]

(***************************************************************************)
(* getSignatureFromHeaders.  The headers are a record of the three names   *)
(* the function looks up; a header's value is a list of strings: empty for *)
(* a header that is absent, of one string for a plain value.               *)
(***************************************************************************)
HeaderNames == {"x-todoist-hmac-sha256", "X-Todoist-Hmac-SHA256", "X-TODOIST-HMAC-SHA256"}

\* a || b on header values
OrElse(a, b) == IF a = <<>> \/ a = <<<<>>>> THEN b ELSE a

getSignatureFromHeaders(headers) ==
    LET headerValue ==
            OrElse(headers["x-todoist-hmac-sha256"],
                   OrElse(headers["X-Todoist-Hmac-SHA256"],
                          headers["X-TODOIST-HMAC-SHA256"]))
    IN  IF headerValue = <<>> THEN <<>> ELSE headerValue[1]

\* request.headers.get('x-todoist-hmac-sha256'): names compare without case
HeadersGet(headers) ==
    LET present == {n \in HeaderNames : headers[n] # <<>>}
    IN  IF present = {} THEN <<>>
        ELSE headers[CHOOSE n \in present : TRUE][1]

(***************************************************************************)
(* getRawBody (Node runtime).  bodyAs is how the hosting runtime presents  *)
(* the body of the request.                                                *)
(***************************************************************************)
getRawBodyThrows(r) == r.bodyAs = "streamError"

getRawBody(r) ==
    CASE r.bodyAs = "string" -> r.wire
      [] r.bodyAs = "buffer" -> r.wire
      [] r.bodyAs = "object" -> JSONStringify(JSONParse(r.wire))
      [] OTHER -> r.wire

\* SUPPORTED_EVENTS of api/webhook
SUPPORTED_EVENTS ==
    {"item:added", "item:updated", "item:completed", "item:uncompleted",
     "item:deleted"}

(***************************************************************************)
(* The signature functions on their own: a body is signed, then the body   *)
(* or the signature text is sent as signed or with one bit inverted, and   *)
(* each of the two functions is applied to what arrives.                   *)
(***************************************************************************)
BodyBytes == {0, 65, 123}

SecretKeys == {<<115>>, <<115, 51>>}

Bodies == UNION {[1..n -> BodyBytes] : n \in 1..MaxBodyLen}

\* the requests derived from signed body b under key s
Deliveries(b, s) ==
    {[signedBody |-> b, secret |-> s, body |-> b, signature |-> Sign(b, s),
      mutated |-> "none"]}
    \cup {[signedBody |-> b, secret |-> s, body |-> FlipAt(b, i, k),
           signature |-> Sign(b, s), mutated |-> "body"] :
              i \in 1..Len(b), k \in 0..7}
    \cup {[signedBody |-> b, secret |-> s, body |-> b,
           signature |-> FlipAt(Sign(b, s), i, k), mutated |-> "signature"] :
              i \in 1..Len(Sign(b, s)), k \in 0..7}

VerifyIdle ==
    /\ vpc = "idle"
    /\ vIn = [signedBody |-> <<>>, secret |-> <<>>, body |-> <<>>,
              signature |-> <<>>, mutated |-> "none"]
    /\ vOut = [node |-> "pending", edge |-> "pending"]

VerifyStart ==
    /\ vpc = "input"
    /\ vIn \in UNION {Deliveries(b, s) : b \in Bodies, s \in SecretKeys}
    /\ vOut = [node |-> "pending", edge |-> "pending"]

VerifyNode ==
    /\ vpc = "input"
    /\ vOut.node = "pending"
    /\ vOut' = [vOut EXCEPT !.node =
          IF verifyTodoistSignature(vIn.body, vIn.signature, vIn.secret)
          THEN "true" ELSE "false"]
    /\ UNCHANGED <<vpc, vIn, formatVars, handlerVars>>

VerifyEdge ==
    /\ vpc = "input"
    /\ vOut.edge = "pending"
    /\ vOut' = [vOut EXCEPT !.edge =
          IF verifySignature(vIn.body, vIn.signature, vIn.secret)
          THEN "true" ELSE "false"]
    /\ UNCHANGED <<vpc, vIn, formatVars, handlerVars>>

VerifyNext == VerifyNode \/ VerifyEdge

(***************************************************************************)
(* The formatters on their own: a task and a kind are drawn, and each of   *)
(* the two formatters is applied to them.                                  *)
(***************************************************************************)
Kinds == SUPPORTED_EVENTS \cup {"item:archived"}

LabelNames == {"errand", "home"}

LabelLists == UNION {[1..n -> LabelNames] : n \in 0..MaxLabels}

Descriptions == {<<>>, <<" ">>, <<"2% fat">>, <<"2% fat", "\n", "and eggs">>}

\* text in place of a timestamp: one a Date parses, one it does not
TimeStrings == {"2024-01-15T14:00:00Z", "tomorrow at 2pm"}

NoDue == [present |-> FALSE, date |-> "", datetime |-> "", is_recurring |-> FALSE]

Dues ==
    {NoDue}
    \cup [present : {TRUE}, date : {"2024-01-15"}, datetime : {""} \cup TimeStrings,
          is_recurring : BOOLEAN]

Tasks ==
    [content : {"Buy milk"}, description : Descriptions, priority : 1..4,
     due : Dues, labels : LabelLists, completed_at : {""} \cup TimeStrings]

FormatIdle ==
    /\ fpc = "idle"
    /\ fIn = [task |-> [content |-> "", description |-> <<>>, priority |-> 1,
                        due |-> NoDue, labels |-> <<>>, completed_at |-> ""],
              kind |-> ""]
    /\ fOut = [nodeDone |-> FALSE, node |-> <<>>, edgeDone |-> FALSE, edge |-> <<>>]

FormatStart ==
    /\ fpc = "input"
    /\ fIn \in [task : Tasks, kind : Kinds]
    /\ fOut = [nodeDone |-> FALSE, node |-> <<>>, edgeDone |-> FALSE, edge |-> <<>>]

FormatNode ==
    /\ fpc = "input"
    /\ ~fOut.nodeDone
    /\ fOut' = [fOut EXCEPT !.nodeDone = TRUE,
                            !.node = formatTaskAsMarkdown(fIn.task, fIn.kind)]
    /\ UNCHANGED <<fpc, fIn, verifyVars, handlerVars>>

FormatEdge ==
    /\ fpc = "input"
    /\ ~fOut.edgeDone
    /\ fOut' = [fOut EXCEPT !.edgeDone = TRUE,
                            !.edge = formatTaskMarkdown(fIn.task, fIn.kind)]
    /\ UNCHANGED <<fpc, fIn, verifyVars, handlerVars>>

FormatNext == FormatNode \/ FormatEdge

(***************************************************************************)
(* The two handlers.  One request is drawn; the handler of the runtime     *)
(* that receives it runs step by step.  steps is the list of the steps     *)
(* run, responses the responses sent, calls the requests made to the note  *)
(* service.  hpc = "threw" is the handler's promise rejected.              *)
(***************************************************************************)
SenderKey == <<115>>

OtherKey == <<115, 51>>

\* the bodies that are sent
WireBodies ==
    {<<"{", "event_name">>,
     <<"null">>,
     <<"42">>,
     <<"{", "event_name", ":", "item:added", "}">>,
     <<"{", "event_name", ":", " ", "item:added", ",", "event_data", ":", " ",
       "{milk}", "}">>,
     <<"{", "event_name", ":", "item:completed", ",", "event_data", ":",
       "{report}", "}">>}
    \cup {<<"{", "event_name", ":", k, ",", "event_data", ":", "{milk}", "}">> :
             k \in KindTokens}
    \cup {<<"{", "event_name", ":", " ", "item:archived", ",", "event_data", ":", " ",
            "{milk}", "}">>}
    \cup {<<"{", "event_name", ":", k, ",", "event_data", ":", "{report}", "}">> :
             k \in {"item:updated", "item:uncompleted"}}

\* the signature header values sent with body b: none, the signature, the
\* signature with one bit of its padding inverted, another key's signature
SignatureTexts(b) ==
    {<<>>, Sign(Utf8(b), SenderKey), FlipAt(Sign(Utf8(b), SenderKey), 4, 0),
     Sign(Utf8(b), OtherKey)}

Environments ==
    {[clientSecret |-> SenderKey, capacitiesToken |-> "token", spaceId |-> "space"],
     [clientSecret |-> <<>>, capacitiesToken |-> "token", spaceId |-> "space"],
     [clientSecret |-> SenderKey, capacitiesToken |-> "", spaceId |-> "space"],
     [clientSecret |-> SenderKey, capacitiesToken |-> "token", spaceId |-> ""]}

\* the header record with value v under name n
HeadersWith(n, v) ==
    [m \in HeaderNames |-> IF m = n /\ v # <<>> THEN <<v>> ELSE <<>>]

\* how each runtime can present the body
Presentations(rt, b) ==
    IF rt = "edge" THEN {"text", "textError"}
    ELSE {"string", "buffer", "stream", "streamError"}
         \cup (IF JSONParse(b).type = "object" THEN {"object"} ELSE {})

NoPayload == JsonValue(FALSE, "none", Undefined, FALSE, TaskMilk)

Response(code, status, error, event, details) ==
    [code |-> code, status |-> status, error |-> error, event |-> event,
     details |-> details]

\* res.status(code).json(body) and return new Response(body, {status: code})
Respond(r) == responses' = Append(responses, r)

Step(name) == steps' = Append(steps, name)

\* the Node handler has not run on the request
NoRun == [ran |-> FALSE, bodyAs |-> "", hpc |-> "", responses |-> <<>>, calls |-> <<>>]

HandlerIdle ==
    /\ hpc = "idle"
    /\ runtime = "none"
    /\ req = [method |-> "", env |-> [clientSecret |-> <<>>, capacitiesToken |-> "",
                                      spaceId |-> ""],
              headers |-> [m \in HeaderNames |-> <<>>], wire |-> <<>>, bodyAs |-> ""]
    /\ rawBody = <<>>
    /\ payload = NoPayload
    /\ markdown = <<>>
    /\ steps = <<>>
    /\ responses = <<>>
    /\ calls = <<>>
    /\ nodeRun = NoRun

HandlerStart ==
    /\ hpc = "method"
    /\ runtime \in {"node", "edge"}
    /\ \E m \in {"POST", "GET"}, e \in Environments, n \in HeaderNames, b \in WireBodies :
         \E s \in SignatureTexts(b), p \in Presentations(runtime, b) :
            req = [method |-> m, env |-> e, headers |-> HeadersWith(n, s),
                   wire |-> b, bodyAs |-> p]
    /\ rawBody = <<>>
    /\ payload = NoPayload
    /\ markdown = <<>>
    /\ steps = <<>>
    /\ responses = <<>>
    /\ calls = <<>>
    /\ nodeRun = NoRun

ConfigMissing(env) ==
    Falsy(env.clientSecret) \/ env.capacitiesToken = "" \/ env.spaceId = ""

\* what the note service does with a request: accepts it, answers 503, or
\* cannot be reached
UpstreamOutcomes == {"ok", "http503", "transport"}

\* the request fetch sends to the note service, and what came of it
AppendCall(by, env, mdText, outcome) ==
    [by |-> by, spaceId |-> env.spaceId, token |-> env.capacitiesToken,
     mdText |-> mdText, result |-> outcome]

(***************************************************************************)
(* handler, Node runtime (src/api/webhook.ts 46-112).                      *)
(***************************************************************************)
NodeMethod ==
    /\ runtime = "node" /\ hpc = "method"
    /\ Step("method")
    /\ IF req.method # "POST"
       THEN /\ Respond(Response(405, "", "Method not allowed", "", ""))
            /\ hpc' = "done"
       ELSE /\ hpc' = "config"
            /\ UNCHANGED responses
    /\ UNCHANGED <<runtime, req, rawBody, payload, markdown, calls, verifyVars, formatVars, nodeRun>>

NodeConfig ==
    /\ runtime = "node" /\ hpc = "config"
    /\ Step("config")
    /\ IF ConfigMissing(req.env)
       THEN /\ Respond(Response(500, "", "Server configuration error", "", ""))
            /\ hpc' = "done"
       ELSE /\ hpc' = "read"
            /\ UNCHANGED responses
    /\ UNCHANGED <<runtime, req, rawBody, payload, markdown, calls, verifyVars, formatVars, nodeRun>>

\* const rawBody = await getRawBody(req): a failing stream rejects the
\* handler's promise
NodeReadBody ==
    /\ runtime = "node" /\ hpc = "read"
    /\ Step("read")
    /\ IF getRawBodyThrows(req)
       THEN /\ hpc' = "threw"
            /\ UNCHANGED rawBody
       ELSE /\ rawBody' = getRawBody(req)
            /\ hpc' = "verify"
    /\ UNCHANGED <<runtime, req, payload, markdown, responses, calls, verifyVars, formatVars, nodeRun>>

NodeVerify ==
    /\ runtime = "node" /\ hpc = "verify"
    /\ Step("verify")
    /\ LET signature == getSignatureFromHeaders(req.headers)
       IN  IF ~verifyTodoistSignature(Utf8(rawBody), signature, req.env.clientSecret)
           THEN /\ Respond(Response(401, "", "Invalid signature", "", ""))
                /\ hpc' = "done"
           ELSE /\ hpc' = "parse"
                /\ UNCHANGED responses
    /\ UNCHANGED <<runtime, req, rawBody, payload, markdown, calls, verifyVars, formatVars, nodeRun>>

NodeParse ==
    /\ runtime = "node" /\ hpc = "parse"
    /\ Step("parse")
    /\ LET parsed == parseWebhookPayload(rawBody)
       IN  IF ~parsed.ok
           THEN /\ Respond(Response(400, "", "Invalid payload", "", ""))
                /\ hpc' = "done"
                /\ UNCHANGED payload
           ELSE /\ payload' = parsed
                /\ hpc' = "filter"
                /\ UNCHANGED responses
    /\ UNCHANGED <<runtime, req, rawBody, markdown, calls, verifyVars, formatVars, nodeRun>>

\* const { event_name, event_data } = payload throws a TypeError when the
\* payload is null; of a number both names are undefined
NodeFilter ==
    /\ runtime = "node" /\ hpc = "filter"
    /\ Step("filter")
    /\ IF payload.type = "null"
       THEN /\ hpc' = "threw"
            /\ UNCHANGED responses
       ELSE IF payload.event_name \notin SUPPORTED_EVENTS
       THEN /\ Respond(Response(200, "ignored", "", payload.event_name, ""))
            /\ hpc' = "done"
       ELSE /\ hpc' = "format"
            /\ UNCHANGED responses
    /\ UNCHANGED <<runtime, req, rawBody, payload, markdown, calls, verifyVars, formatVars, nodeRun>>

\* formatTaskAsMarkdown(event_data, event_name) reads task.content: a
\* TypeError when event_data is undefined
NodeFormat ==
    /\ runtime = "node" /\ hpc = "format"
    /\ Step("format")
    /\ IF ~payload.has_data
       THEN /\ hpc' = "threw"
            /\ UNCHANGED markdown
       ELSE /\ markdown' = formatTaskAsMarkdown(payload.event_data, payload.event_name)
            /\ hpc' = "forward"
    /\ UNCHANGED <<runtime, req, rawBody, payload, responses, calls, verifyVars, formatVars, nodeRun>>

\* await saveToDailyNote(...): one fetch; a response that is not ok and a
\* fetch that rejects both throw into the handler's catch
NodeForward ==
    /\ runtime = "node" /\ hpc = "forward"
    /\ Step("forward")
    /\ \E outcome \in UpstreamOutcomes :
          /\ calls' = Append(calls, AppendCall("node", req.env, markdown, outcome))
          /\ IF outcome = "ok"
             THEN Respond(Response(200, "ok", "", payload.event_name, ""))
             ELSE Respond(Response(500, "", "Failed to save to Capacities", "", ""))
    /\ hpc' = "done"
    /\ UNCHANGED <<runtime, req, rawBody, payload, markdown, verifyVars, formatVars, nodeRun>>

(***************************************************************************)
(* handler, Edge runtime (src/api/webhook.ts 205-283).                     *)
(***************************************************************************)
EdgeMethod ==
    /\ runtime = "edge" /\ hpc = "method"
    /\ Step("method")
    /\ IF req.method # "POST"
       THEN /\ Respond(Response(405, "", "Method not allowed", "", ""))
            /\ hpc' = "done"
       ELSE /\ hpc' = "config"
            /\ UNCHANGED responses
    /\ UNCHANGED <<runtime, req, rawBody, payload, markdown, calls, verifyVars, formatVars, nodeRun>>

EdgeConfig ==
    /\ runtime = "edge" /\ hpc = "config"
    /\ Step("config")
    /\ IF ConfigMissing(req.env)
       THEN /\ Respond(Response(500, "", "Server config error", "", ""))
            /\ hpc' = "done"
       ELSE /\ hpc' = "read"
            /\ UNCHANGED responses
    /\ UNCHANGED <<runtime, req, rawBody, payload, markdown, calls, verifyVars, formatVars, nodeRun>>

\* const rawBody = await request.text()
EdgeReadBody ==
    /\ runtime = "edge" /\ hpc = "read"
    /\ Step("read")
    /\ IF req.bodyAs = "textError"
       THEN /\ hpc' = "threw"
            /\ UNCHANGED rawBody
       ELSE /\ rawBody' = req.wire
            /\ hpc' = "verify"
    /\ UNCHANGED <<runtime, req, payload, markdown, responses, calls, verifyVars, formatVars, nodeRun>>

\* isValidSig is computed and logged; the branch on it is commented out
EdgeVerify ==
    /\ runtime = "edge" /\ hpc = "verify"
    /\ Step("verify")
    /\ LET signature  == HeadersGet(req.headers)
           isValidSig == verifySignature(Utf8(rawBody), signature, req.env.clientSecret)
       IN  isValidSig \in BOOLEAN
    /\ hpc' = "parse"
    /\ UNCHANGED <<runtime, req, rawBody, payload, markdown, responses, calls,
                   verifyVars, formatVars, nodeRun>>

EdgeParse ==
    /\ runtime = "edge" /\ hpc = "parse"
    /\ Step("parse")
    /\ LET parsed == JSONParse(rawBody)
       IN  IF ~parsed.ok
           THEN /\ Respond(Response(400, "", "Invalid JSON", "", ""))
                /\ hpc' = "done"
                /\ UNCHANGED payload
           ELSE /\ payload' = parsed
                /\ hpc' = "filter"
                /\ UNCHANGED responses
    /\ UNCHANGED <<runtime, req, rawBody, markdown, calls, verifyVars, formatVars, nodeRun>>

EdgeFilter ==
    /\ runtime = "edge" /\ hpc = "filter"
    /\ Step("filter")
    /\ IF payload.type = "null"
       THEN /\ hpc' = "threw"
            /\ UNCHANGED responses
       ELSE IF payload.event_name \notin SUPPORTED_EVENTS
       THEN /\ Respond(Response(200, "ignored", "", payload.event_name, ""))
            /\ hpc' = "done"
       ELSE /\ hpc' = "format"
            /\ UNCHANGED responses
    /\ UNCHANGED <<runtime, req, rawBody, payload, markdown, calls, verifyVars, formatVars, nodeRun>>

EdgeFormat ==
    /\ runtime = "edge" /\ hpc = "format"
    /\ Step("format")
    /\ IF ~payload.has_data
       THEN /\ hpc' = "threw"
            /\ UNCHANGED markdown
       ELSE /\ markdown' = formatTaskMarkdown(payload.event_data, payload.event_name)
            /\ hpc' = "forward"
    /\ UNCHANGED <<runtime, req, rawBody, payload, responses, calls, verifyVars, formatVars, nodeRun>>

\* one fetch inside try: not ok gives 500 with the upstream text, a fetch
\* that rejects gives 500 from the catch
EdgeForward ==
    /\ runtime = "edge" /\ hpc = "forward"
    /\ Step("forward")
    /\ \E outcome \in UpstreamOutcomes :
          /\ calls' = Append(calls, AppendCall("edge", req.env, markdown, outcome))
          /\ CASE outcome = "ok" ->
                   Respond(Response(200, "ok", "", payload.event_name, ""))
              [] outcome = "http503" ->
                   Respond(Response(500, "", "Capacities API error", "", "upstream text"))
              [] OTHER ->
                   Respond(Response(500, "", "Failed to save", "", ""))
    /\ hpc' = "done"
    /\ UNCHANGED <<runtime, req, rawBody, payload, markdown, verifyVars, formatVars, nodeRun>>

(***************************************************************************)
(* Both entry points on one request: the Node handler runs to its end,     *)
(* then the request (method, configuration, headers, body as sent) is      *)
(* given to the Edge handler, which sees the body the way its own runtime  *)
(* presents it.                                                            *)
(***************************************************************************)
EdgeReceivesSame ==
    /\ runtime = "node"
    /\ hpc \in {"done", "threw"}
    /\ ~nodeRun.ran
    /\ nodeRun' = [ran |-> TRUE, bodyAs |-> req.bodyAs, hpc |-> hpc,
                   responses |-> responses, calls |-> calls]
    /\ runtime' = "edge"
    /\ \E p \in Presentations("edge", req.wire) : req' = [req EXCEPT !.bodyAs = p]
    /\ hpc' = "method"
    /\ rawBody' = <<>>
    /\ payload' = NoPayload
    /\ markdown' = <<>>
    /\ steps' = <<>>
    /\ responses' = <<>>
    /\ calls' = <<>>
    /\ UNCHANGED <<verifyVars, formatVars>>

HandlerNext ==
    \/ NodeMethod \/ NodeConfig \/ NodeReadBody \/ NodeVerify
    \/ NodeParse \/ NodeFilter \/ NodeFormat \/ NodeForward
    \/ EdgeMethod \/ EdgeConfig \/ EdgeReadBody \/ EdgeVerify
    \/ EdgeParse \/ EdgeFilter \/ EdgeFormat \/ EdgeForward

(***************************************************************************)
(* Properties of the handlers (specification Spec).                        *)
(***************************************************************************)
Terminated == hpc \in {"done", "threw"}

\* the signature header the sender put on the request
SentSignature == HeadersGet(req.headers)

\* the signature the sender computes for the body as sent
ValidlySigned == SentSignature = Sign(Utf8(req.wire), req.env.clientSecret)

\* the body as the handler of the running entry point reads it
BodyRead == IF runtime = "node" THEN getRawBody(req) ELSE req.wire

\* the running entry point's own signature function rejects the request
SignatureRejected ==
    IF runtime = "node"
    THEN ~verifyTodoistSignature(Utf8(BodyRead), getSignatureFromHeaders(req.headers),
                                 req.env.clientSecret)
    ELSE ~verifySignature(Utf8(BodyRead), SentSignature, req.env.clientSecret)

Complete == req.method = "POST" /\ ~ConfigMissing(req.env)

\* C1: a POST with complete configuration whose signature does not verify
\* against the body as sent is answered 401, no call to the note service
\* is made for it and its body is never parsed, whichever entry point runs.
C1_BadSignatureIs401 ==
    (Complete /\ ~verifyTodoistSignature(Utf8(req.wire), SentSignature,
                                         req.env.clientSecret))
    => /\ calls = <<>>
       /\ \A i \in 1..Len(steps) : steps[i] # "parse"
       /\ hpc = "done" => responses = <<Response(401, "", "Invalid signature", "", "")>>

\* C2: every invocation ends having sent exactly one response, and none
\* sends a second one.
C2_ExactlyOneResponse ==
    /\ Len(responses) <= 1
    /\ Terminated => Len(responses) = 1

CheckOrder == <<"method", "config", "read", "verify", "parse", "filter", "format", "forward">>

\* the handler answered with code c after running the first n steps only
AnsweredAt(c, n) ==
    /\ Len(responses) = 1
    /\ responses[1].code = c
    /\ steps = SubSeq(CheckOrder, 1, n)
    /\ calls = <<>>

\* C3: the checks run in the order method, configuration, signature, parse,
\* kind, and the first that fails decides the response (405, 500, 401, 400,
\* 200 ignored); nothing runs after it.  The signature and the parse are
\* taken of the body the handler read.
C3_FirstFailedCheckDecides ==
    hpc = "done" =>
       IF req.method # "POST" THEN AnsweredAt(405, 1)
       ELSE IF ConfigMissing(req.env) THEN AnsweredAt(500, 2)
       ELSE IF SignatureRejected THEN AnsweredAt(401, 4)
       ELSE IF ~JSONParse(BodyRead).ok THEN AnsweredAt(400, 5)
       ELSE IF JSONParse(BodyRead).event_name \notin SUPPORTED_EVENTS
       THEN AnsweredAt(200, 6) /\ responses[1].status = "ignored"
       ELSE TRUE

\* the body as sent is an event object of a kind outside SUPPORTED_EVENTS
UnsupportedKind ==
    /\ JSONParse(req.wire).type = "object"
    /\ JSONParse(req.wire).event_name \notin SUPPORTED_EVENTS

\* C4: a validly signed POST (configuration complete) of an unsupported kind
\* is answered 200 {status: "ignored", event: kind}, and no call to the note
\* service is made for it.
C4_UnsupportedKindIgnored ==
    (Complete /\ ValidlySigned /\ UnsupportedKind)
    => /\ calls = <<>>
       /\ hpc = "done" =>
             responses = <<Response(200, "ignored", "",
                                    JSONParse(req.wire).event_name, "")>>

\* every check of the handler has passed: it went on to format
PassedAllChecks == \E i \in 1..Len(steps) : steps[i] = "format"

\* C5: a request that passes all checks makes exactly one call to the note
\* service; the response is 200 {status: "ok", event: kind} exactly when
\* that call succeeded, and 500 with an error when it did not.
C5_OneCallNoRetry ==
    /\ Len(calls) <= 1
    /\ (Terminated /\ PassedAllChecks) =>
          /\ Len(calls) = 1
          /\ Len(responses) = 1
          /\ IF calls[1].result = "ok"
             THEN responses[1] = Response(200, "ok", "", payload.event_name, "")
             ELSE responses[1].code = 500 /\ responses[1].error # ""

\* C7: the bytes the Node handler gives to the HMAC are the body as sent,
\* however the runtime presents the body.
C7_HmacOverRawBody ==
    (runtime = "node" /\ Len(steps) >= 3 /\ hpc # "threw")
    => Utf8(rawBody) = Utf8(req.wire)

(***************************************************************************)
(* Properties of the two handlers on one request (specification SpecBoth). *)
(***************************************************************************)
\* both handlers have ended on the request, each having read its body
BothEnded ==
    /\ nodeRun.ran
    /\ runtime = "edge"
    /\ Terminated
    /\ nodeRun.bodyAs # "streamError"
    /\ req.bodyAs # "textError"

\* the note service treated the two handlers' calls alike
SameUpstream ==
    (Len(nodeRun.calls) = 1 /\ Len(calls) = 1)
    => nodeRun.calls[1].result = calls[1].result

\* the HTTP status a handler returned; 0 when its promise rejected
StatusOf(ended, sent) == IF ended = "done" /\ Len(sent) = 1 THEN sent[1].code ELSE 0

\* C11: on one request and one upstream outcome the Node handler and the
\* Edge handler return the same HTTP status, call the note service in the
\* same cases, and forward the same formatted text.
C11_HandlersAgree ==
    (BothEnded /\ SameUpstream)
    => /\ StatusOf(nodeRun.hpc, nodeRun.responses) = StatusOf(hpc, responses)
       /\ Len(nodeRun.calls) = Len(calls)
       /\ (Len(nodeRun.calls) = 1 /\ Len(calls) = 1)
             => nodeRun.calls[1].mdText = calls[1].mdText

DecodedBytesChanged ==
    Base64Decode(vIn.signature) # Base64Decode(Sign(vIn.signedBody, vIn.secret))

Heading(kind) ==
    CASE kind = "item:added" -> "### New Task Added"
      [] kind = "item:updated" -> "### Task Updated"
      [] kind = "item:uncompleted" -> "### Task Reopened"
      [] kind = "item:completed" -> "### Task Completed"
      [] kind = "item:deleted" -> "### Task Deleted"
      [] OTHER -> "### Task Event: "

Struck(kind) == kind \in {"item:completed", "item:deleted"}

\* piece p is in the text and q comes right after it
Followed(text, p, q) == \E i \in 1..(Len(text) - 1) : text[i] = p /\ text[i + 1] = q

\* text out is what the policy table asks for task t and kind k
FollowsPolicy(out, t, k) ==
    /\ out[1] = Heading(k)
    /\ SubSeq(out, 4, 6) = (IF Struck(k) THEN <<"~~", t.content, "~~">>
                            ELSE <<"**", t.content, "**">>)
    /\ IF Struck(k)
       THEN /\ ~Contains(out, "- **Priority:** ")
            /\ ~Contains(out, "- **Due:** ")
            /\ ~Contains(out, "- **Labels:** ")
            /\ ~Contains(out, "> ")
       ELSE /\ Contains(out, "- **Priority:** ") <=> t.priority > 1
            /\ t.priority = 4 => Followed(out, "- **Priority:** ", "Urgent")
            /\ Contains(out, "- **Due:** ") <=> t.due.present
            /\ Contains(out, "- **Labels:** ") <=> Len(t.labels) > 0
            /\ Contains(out, "> ") <=>
                  (t.description # <<>> /\ ~TrimsToEmpty(t.description))

\* C8: for every task and each of the five kinds, both formatters give the
\* heading, the title style and the metadata of the policy table.
C8_FormatFollowsPolicy ==
    fIn.kind \in SUPPORTED_EVENTS =>
       /\ fOut.nodeDone => FollowsPolicy(fOut.node, fIn.task, fIn.kind)
       /\ fOut.edgeDone => FollowsPolicy(fOut.edge, fIn.task, fIn.kind)

\* a blank line, the separator, a line break
Terminator == <<"\n", "\n", "---", "\n">>

\* C9: for every task and every kind, the text of either formatter ends
\* with a blank line, the separator "---" and a line break.
C9_BlockTerminator ==
    /\ fOut.nodeDone => EndsWith(fOut.node, Terminator)
    /\ fOut.edgeDone => EndsWith(fOut.edge, Terminator)

\* C9 witness: a completed task that carries metadata has gone through the
\* early return of formatTaskAsMarkdown.
C9_Witness ==
    /\ fOut.nodeDone /\ fOut.edgeDone
    /\ fIn.kind = "item:completed"
    /\ fIn.task.completed_at # ""
    /\ Len(fIn.task.labels) > 0
    /\ fOut.node # <<>>

\* C10: a due date-time or a completion time that is no timestamp appears
\* unchanged in the Due or Completed line of formatTaskAsMarkdown, with no
\* other text in its place, and the block is complete.
C10_UnparsableTimeKeptRaw ==
    fOut.nodeDone =>
       /\ (/\ ~Struck(fIn.kind)
           /\ fIn.task.due.present
           /\ fIn.task.due.datetime # ""
           /\ ~NewDate(fIn.task.due.datetime).valid)
          => /\ Followed(fOut.node, "- **Due:** ", fIn.task.due.datetime)
             /\ EndsWith(fOut.node, Terminator)
       /\ (/\ fIn.kind = "item:completed"
           /\ fIn.task.completed_at # ""
           /\ ~NewDate(fIn.task.completed_at).valid)
          => /\ Followed(fOut.node, "- **Completed:** ", fIn.task.completed_at)
             /\ EndsWith(fOut.node, Terminator)

(***************************************************************************)
(* Specifications.                                                         *)
(***************************************************************************)
Init == HandlerStart /\ VerifyIdle /\ FormatIdle

Next == HandlerNext

Spec == Init /\ [][Next]_vars

VerifyInit == VerifyStart /\ FormatIdle /\ HandlerIdle

SpecVerify == VerifyInit /\ [][VerifyNext]_vars

FormatInit == FormatStart /\ VerifyIdle /\ HandlerIdle

SpecFormat == FormatInit /\ [][FormatNext]_vars

BothInit == HandlerStart /\ runtime = "node" /\ VerifyIdle /\ FormatIdle

BothNext == HandlerNext \/ EdgeReceivesSame

SpecBoth == BothInit /\ [][BothNext]_vars

====
